---- MODULE Spec2Model ----
(***************************************************************************)
(* Layout of a tree of fixed-size data grids (src/main.py): DataGrid,      *)
(* GridFactory.create_child, DataGrid._calculate_connection_path and the   *)
(* stack walk of ExcelGenerator.generate.                                  *)
(*                                                                         *)
(* A grid is a record; a tree is the sequence `nodes` of all grids built   *)
(* so far, a grid being referred to by its index (parent = None for the    *)
(* root).  A connection path is a function from <<row, col>> to a tag.     *)
(***************************************************************************)
EXTENDS Integers, Sequences, FiniteSets, TLC

\* bounds of the model
MaxNodes == 5      \* grids in a tree built by create_child
MaxOrigin == 2     \* the root's origin is drawn from 1..MaxOrigin
MaxCoord == 6      \* origin of a directly constructed grid: 1..MaxCoord

None == 0

VARIABLES nodes, call, pc, stack, out, drawn

vars == <<nodes, call, pc, stack, out, drawn>>

----------------------------------------------------------------------------
\* DataGrid

end_row(g) == g.start_row + 1

end_col(g) == g.start_col + 2

\* keys of the dict built by _generate_cells
generate_cells(g) == (g.start_row .. end_row(g)) \X (g.start_col .. end_col(g))

EmptyPath == [coord \in {} |-> "horizontal"]

horizontal_run_from_next_col(p, start_row, start_col) ==
    IF start_col > end_col(p)
    THEN {<<p.start_row, col>> : col \in (end_col(p) + 1) .. start_col}
    ELSE {}

\* first loop of _calculate_connection_path: range(parent.end_col, start_col + 1)
horizontal_run(p, start_row, start_col) ==
    IF start_col > end_col(p)
    THEN {<<p.start_row, col>> : col \in end_col(p) .. start_col}
    ELSE {}

vertical_run_excl_child_row(p, start_row, start_col) ==
    IF start_row > end_row(p)
    THEN {<<row, start_col - 1>> : row \in end_row(p) .. (start_row - 1)}
    ELSE {}

\* second loop of _calculate_connection_path: range(parent.end_row, start_row + 1)
vertical_run(p, start_row, start_col) ==
    IF start_row > end_row(p)
    THEN {<<row, start_col - 1>> : row \in end_row(p) .. start_row}
    ELSE {}

\* the dict after the two loops; the second loop overwrites the first
path_after_runs(p, start_row, start_col) ==
    LET H == horizontal_run(p, start_row, start_col)
        V == vertical_run(p, start_row, start_col)
    IN  [coord \in H \cup V |-> IF coord \in V THEN "vertical" ELSE "horizontal"]

calculate_connection_path(ns, start_row, start_col, parent) ==
    IF parent = None
    THEN EmptyPath
    ELSE LET p == ns[parent]
             path == path_after_runs(p, start_row, start_col)
             last_h_coord == <<start_row, start_col - 1>>
         IN  [coord \in DOMAIN path |->
                 IF start_row > end_row(p) /\ coord = last_h_coord
                 THEN "corner"
                 ELSE path[coord]]

\* the constructor with __post_init__
DataGrid(ns, start_row, start_col, parent) ==
    [start_row |-> start_row,
     start_col |-> start_col,
     parent |-> parent,
     children |-> <<>>,
     connection_path |-> calculate_connection_path(ns, start_row, start_col, parent)]

----------------------------------------------------------------------------
\* GridFactory

child_origin_vertical_under_parent(parent, horizontal) ==
    IF horizontal
    THEN <<parent.start_row, end_col(parent) + 4>>
    ELSE <<end_row(parent) + 3, parent.start_col>>

child_origin(parent, horizontal) ==
    IF horizontal
    THEN <<parent.start_row, end_col(parent) + 4>>
    ELSE <<end_row(parent) + 3, end_col(parent) + 4>>

create_child_prepend(ns, parent, horizontal) ==
    LET o == child_origin(ns[parent], horizontal)
        child == DataGrid(ns, o[1], o[2], parent)
    IN  Append([ns EXCEPT ![parent].children = <<Len(ns) + 1>> \o @], child)

\* the tree after create_child(parent, horizontal); the child is Len(ns) + 1
create_child(ns, parent, horizontal) ==
    LET o == child_origin(ns[parent], horizontal)
        child == DataGrid(ns, o[1], o[2], parent)
    IN  Append([ns EXCEPT ![parent].children = Append(@, Len(ns) + 1)], child)

----------------------------------------------------------------------------
\* ExcelGenerator

reversed(s) == [i \in 1 .. Len(s) |-> s[Len(s) + 1 - i]]

extend_unreversed(stk, children) == stk \o children

\* stack.extend(reversed(current.children))
extend_reversed(stk, children) == stk \o reversed(children)

RECURSIVE draw_connections(_, _)
RECURSIVE draw_each_child(_, _)

\* order in which _draw_connections handles the grids below and including g
draw_connections(ns, g) == <<g>> \o draw_each_child(ns, ns[g].children)

draw_each_child(ns, children) ==
    IF children = <<>>
    THEN <<>>
    ELSE draw_connections(ns, Head(children)) \o draw_each_child(ns, Tail(children))

----------------------------------------------------------------------------
\* actions

NoCall == [op |-> "none", parent |-> None, horizontal |-> FALSE, ret |-> None]

Init ==
    /\ \E r \in 1 .. MaxOrigin, c \in 1 .. MaxOrigin :
          nodes = <<DataGrid(<<>>, r, c, None)>>
    /\ call = NoCall
    /\ pc = "build"
    /\ stack = <<>>
    /\ out = <<>>
    /\ drawn = <<>>

CreateChild(parent, horizontal) ==
    /\ pc = "build"
    /\ Len(nodes) < MaxNodes
    /\ nodes' = create_child(nodes, parent, horizontal)
    /\ call' = [op |-> "create_child", parent |-> parent,
                horizontal |-> horizontal, ret |-> Len(nodes) + 1]
    /\ UNCHANGED <<pc, stack, out, drawn>>

\* generate: stack = [self.root]
GenerateStart ==
    /\ pc = "build"
    /\ pc' = "walk"
    /\ stack' = <<1>>
    /\ call' = [op |-> "generate", parent |-> None, horizontal |-> FALSE, ret |-> None]
    /\ UNCHANGED <<nodes, out, drawn>>

\* one iteration of the while loop of generate
GenerateStep ==
    /\ pc = "walk"
    /\ stack # <<>>
    /\ LET current == stack[Len(stack)]
       IN  /\ out' = Append(out, current)
           /\ stack' = extend_reversed(SubSeq(stack, 1, Len(stack) - 1),
                                       nodes[current].children)
    /\ UNCHANGED <<nodes, call, pc, drawn>>

\* the loop ends, then _draw_connections(self.root)
GenerateFinish ==
    /\ pc = "walk"
    /\ stack = <<>>
    /\ pc' = "done"
    /\ drawn' = draw_connections(nodes, 1)
    /\ UNCHANGED <<nodes, call, stack, out>>

Next ==
    \/ \E parent \in 1 .. Len(nodes), horizontal \in BOOLEAN : CreateChild(parent, horizontal)
    \/ GenerateStart
    \/ GenerateStep
    \/ GenerateFinish

Spec == Init /\ [][Next]_vars

FairSpec == Spec /\ WF_vars(GenerateStep) /\ WF_vars(GenerateFinish)

\* a grid constructed directly with a parent link: DataGrid(r, c, parent=root)
Construct(start_row, start_col) ==
    /\ Len(nodes) = 1
    /\ nodes' = Append(nodes, DataGrid(nodes, start_row, start_col, 1))
    /\ call' = [op |-> "DataGrid", parent |-> 1, horizontal |-> FALSE, ret |-> 2]
    /\ UNCHANGED <<pc, stack, out, drawn>>

NextPath == \E r \in 1 .. MaxCoord, c \in 1 .. MaxCoord : Construct(r, c)

SpecPath == Init /\ [][NextPath]_vars

----------------------------------------------------------------------------
\* vocabulary of the properties

Grids == 1 .. Len(nodes)

Linked == {i \in Grids : nodes[i].parent # None}

Corners(path) == {coord \in DOMAIN path : path[coord] = "corner"}

Overlap(a, b) == generate_cells(a) \cap generate_cells(b) # {}

RECURSIVE Pending(_, _)
\* what the walk still has to emit: the subtrees on the stack, top first
Pending(ns, stk) ==
    IF stk = <<>>
    THEN <<>>
    ELSE draw_connections(ns, stk[Len(stk)]) \o Pending(ns, SubSeq(stk, 1, Len(stk) - 1))

----------------------------------------------------------------------------
\* C1: the child returned by create_child has origin column parent.end_col + 4
\* in both orientations, origin row parent.start_row when horizontal and
\* parent.end_row + 3 when vertical, where end_row = start_row + 1 and
\* end_col = start_col + 2 for every grid.
C1_ChildOrigin ==
    /\ \A i \in Grids : /\ end_row(nodes[i]) = nodes[i].start_row + 1
                        /\ end_col(nodes[i]) = nodes[i].start_col + 2
    /\ call.op = "create_child" =>
          LET p == nodes[call.parent]
              c == nodes[call.ret]
          IN  /\ c.start_col = (p.start_col + 2) + 4
              /\ call.horizontal => c.start_row = p.start_row
              /\ ~call.horizontal => c.start_row = (p.start_row + 1) + 3

C1_Witness ==
    /\ call.op = "create_child"
    /\ ~call.horizontal
    /\ nodes[call.parent].parent # None

C3_CornerIffBothRuns ==
    \A i \in Linked :
        LET c == nodes[i]
            p == nodes[c.parent]
            hEmitted == c.start_col > p.start_col + 2
            vEmitted == c.start_row > p.start_row + 1
        IN  Cardinality(Corners(c.connection_path)) =
                IF hEmitted /\ vEmitted THEN 1 ELSE 0

\* C4: no two distinct children of the same parent have rectangles that
\* share a cell.
C4_NoSiblingOverlap ==
    \A p \in Grids :
        \A i, j \in DOMAIN nodes[p].children :
            i # j => ~Overlap(nodes[nodes[p].children[i]], nodes[nodes[p].children[j]])

\* C5: the stack walk of generate emits the grids in recursive pre-order
\* (the root, then the whole subtree of each child in insertion order),
\* each grid exactly once, and ends with an empty stack.
C5_StackWalkIsPreOrder ==
    /\ [](pc # "build" =>
            /\ out \o Pending(nodes, stack) = draw_connections(nodes, 1)
            /\ \A i, j \in DOMAIN out : out[i] = out[j] => i = j)
    /\ [](pc = "done" =>
            /\ stack = <<>>
            /\ out = drawn
            /\ {out[i] : i \in DOMAIN out} = Grids
            /\ Len(out) = Len(nodes))
    /\ (pc = "walk" ~> pc = "done")

C5_Witness ==
    /\ pc = "done"
    /\ Len(out) = MaxNodes
    /\ \E g \in Grids : Len(nodes[g].children) >= 2 /\ nodes[nodes[g].children[1]].children # <<>>

\* C6: with the root at (1,1), root.end_col = 3 and the path of the child
\* that create_child puts at (1,7) is the cells of row 1 from column 4
\* through column 7, all tagged horizontal.
C6_GoldenHorizontalPath ==
    \A i \in Linked :
        (/\ nodes[i].parent = 1
         /\ nodes[1].start_row = 1 /\ nodes[1].start_col = 1
         /\ nodes[i].start_row = 1 /\ nodes[i].start_col = 7)
        => /\ end_col(nodes[1]) = 3
           /\ nodes[i].connection_path = [coord \in {<<1, k>> : k \in 4 .. 7} |-> "horizontal"]

\* C7: create_child adds no grid whose rectangle overlaps the rectangle of
\* its parent or of an existing child of that parent: such a call fails and
\* leaves the tree as it was.
C7_OverlapRejected ==
    [][Len(nodes') > Len(nodes) =>
          LET c == nodes'[Len(nodes')]
              p == nodes[c.parent]
          IN  /\ ~Overlap(c, p)
              /\ \A k \in DOMAIN p.children : ~Overlap(c, nodes[p.children[k]])]_vars

\* C8: a create_child call only appends the new grid to the end of
\* parent.children: origin, parent link and stored path of every earlier
\* grid, the children of every grid but the parent and the order of the
\* parent's earlier children stay; the new grid has the parent as parent
\* link and no children.
C8_CreateChildFrame ==
    [][call'.op = "create_child" /\ nodes' # nodes =>
          LET n == Len(nodes)
              p == call'.parent
          IN  /\ Len(nodes') = n + 1
              /\ \A i \in 1 .. n :
                    /\ nodes'[i].start_row = nodes[i].start_row
                    /\ nodes'[i].start_col = nodes[i].start_col
                    /\ nodes'[i].parent = nodes[i].parent
                    /\ nodes'[i].connection_path = nodes[i].connection_path
                    /\ i # p => nodes'[i].children = nodes[i].children
              /\ nodes'[p].children = nodes[p].children \o <<n + 1>>
              /\ nodes'[n + 1].parent = p
              /\ nodes'[n + 1].children = <<>>]_vars

C8_Witness ==
    /\ call.op = "create_child"
    /\ Len(nodes[call.parent].children) >= 2
    /\ nodes[call.parent].children[Len(nodes[call.parent].children)] = call.ret

C10_PathsAvoidOtherGrids ==
    (\A p \in Grids :
        \A i, j \in DOMAIN nodes[p].children :
            i # j => nodes[nodes[p].children[i]].start_row # nodes[nodes[p].children[j]].start_row)
    => \A c \in Linked :
          \A g \in Grids \ {c, nodes[c].parent} :
              DOMAIN nodes[c].connection_path \cap generate_cells(nodes[g]) = {}

====
